---- MODULE Spec2Model ----
(***************************************************************************)
(* livelocals: a living read/write view into a frame's local variables.   *)
(*                                                                         *)
(* The model holds two frames (an outer function whose argument "c" is     *)
(* captured by a closure, and a generator-like inner frame whose only name *)
(* is the free variable "c"), the storage of both (f_localsplus and the    *)
(* shared cell), the LiveLocals instances on the heap, the default         *)
(* WeakValueDictionary cache, the callers' references to views, and one    *)
(* in-flight items() generator.  Reference counting and the cyclic         *)
(* collector are modelled because the cache's behaviour depends on them.   *)
(* A third frame is the activation of generatorlocals(gen) itself: it      *)
(* exists only once that function has been called.                         *)
(***************************************************************************)
EXTENDS Integers, Sequences, FiniteSets, TLC

\* ---------------------------------------------------------------- bounds
\* plain values a caller or the frame's code may store: 1..MaxVal
MaxVal == 2
\* LiveLocals instances that may be alive at the same time
MaxViews == 3
\* the longest mapping handed to update()
MaxMap == 2
\* the longest segment (co_varnames, co_cellvars, co_freevars) of a code
\* object handed to LiveLocals.__init__ on its own
MaxSeg == 2

\* ---------------------------------------------------------------- universe
Frames == {1, 2, 3}
Holders == {"ll1", "ll2"}
Names == {"a", "c", "z"}
ViewIds == 1 .. MaxViews

\* Values are uniform records so that any two of them can be compared.
NULL == [t |-> "null", n |-> 0]
None == [t |-> "none", n |-> 0]
IntVal(n) == [t |-> "int", n |-> n]
ViewRef(v) == [t |-> "view", n |-> v]
CellRef(c) == [t |-> "cell", n |-> c]
\* the generator object whose gi_frame is frame f
GenRef(f) == [t |-> "gen", n |-> f]
IntVals == {IntVal(n) : n \in 1 .. MaxVal}

VARIABLES
    fstate,      \* frame -> "running" | "suspended" | "finished" | "freed"
    localsplus,  \* frame -> f_localsplus: fast slots, then cells, then frees
    cells,       \* cell object -> its content (NULL when empty)
    views,       \* view id -> the LiveLocals instance stored there
    holder,      \* caller variable -> view id it refers to (0: none)
    cache,       \* _cache: frame -> view id of the live weak value (0: no entry)
    it,          \* the in-flight items() generator: [view, pos, seen]
    env,         \* ghost: variable -> value last assigned by any actor
    ret,         \* outcome of the operation that was just performed
    thread,      \* caller -> its call of livelocals in progress: [pc, frame, found]
    probe        \* a code object and the _vars LiveLocals.__init__ builds from it

vars == <<fstate, localsplus, cells, views, holder, cache, it, env, ret, thread, probe>>

\* ---------------------------------------------------------------- code objects
\* Frame 1 is make_closure(value): its argument "c" is captured by a nested
\* function, so it is listed in co_varnames and in co_cellvars.  Frame 2 is
\* a nested function / generator that uses "c" as a free variable.  Frame 3
\* is generatorlocals(gen).
f_code(frame) ==
    IF frame = 1
    THEN [co_varnames |-> <<"c", "a">>, co_cellvars |-> <<"c">>, co_freevars |-> <<>>]
    ELSE IF frame = 2
    THEN [co_varnames |-> <<>>, co_cellvars |-> <<>>, co_freevars |-> <<"c">>]
    ELSE [co_varnames |-> <<"gen">>, co_cellvars |-> <<>>, co_freevars |-> <<>>]

SeqRange(s) == {s[k] : k \in DOMAIN s}

DeclaredNames(frame) ==
    SeqRange(f_code(frame).co_varnames) \cup SeqRange(f_code(frame).co_cellvars)
        \cup SeqRange(f_code(frame).co_freevars)

\* The variable a name of a frame denotes: the free "c" of frame 2 is the
\* "c" of frame 1.
Binding(frame, name) == IF name = "c" THEN <<1, "c">> ELSE <<frame, name>>

Variables == UNION {{Binding(f, n) : n \in DeclaredNames(f)} : f \in Frames}

\* Where the interpreter itself keeps a declared name: a name that is a cell
\* or free variable lives in its cell, any other in its fast slot.
RECURSIVE IndexOf(_, _, _)
IndexOf(s, x, k) == IF k > Len(s) THEN 0 ELSE IF s[k] = x THEN k ELSE IndexOf(s, x, k + 1)

HostSlot(frame, name) ==
    LET co == f_code(frame)
        nf == Len(co.co_varnames)
        nc == Len(co.co_cellvars)
    IN  IF IndexOf(co.co_cellvars, name, 1) > 0
        THEN [kind |-> "cell", index |-> nf + IndexOf(co.co_cellvars, name, 1) - 1]
        ELSE IF IndexOf(co.co_freevars, name, 1) > 0
        THEN [kind |-> "cell", index |-> nf + nc + IndexOf(co.co_freevars, name, 1) - 1]
        ELSE [kind |-> "fast", index |-> IndexOf(co.co_varnames, name, 1) - 1]

\* ---------------------------------------------------------------- _frame primitives
Ok(v) == [kind |-> "ok", val |-> v]
Raise(e) == [kind |-> e, val |-> NULL]

IsFastSlot(lp, frame, index) ==
    /\ index + 1 \in DOMAIN lp[frame]
    /\ lp[frame][index + 1].t # "cell"

IsCellSlot(lp, frame, index) ==
    /\ index + 1 \in DOMAIN lp[frame]
    /\ lp[frame][index + 1].t = "cell"

\* Storage is the pair [lp, cl] of f_localsplus arrays and cell contents.
frame_get_fast(S, frame, index) ==
    IF ~IsFastSlot(S.lp, frame, index) THEN Raise("Fatal")
    ELSE IF S.lp[frame][index + 1] = NULL THEN Raise("NameError")
    ELSE Ok(S.lp[frame][index + 1])

frame_set_fast(S, frame, index, value) ==
    IF ~IsFastSlot(S.lp, frame, index) THEN S
    ELSE [S EXCEPT !.lp[frame][index + 1] = value]

frame_del_fast(S, frame, index) == frame_set_fast(S, frame, index, NULL)

frame_get_cell(S, frame, index) ==
    IF ~IsCellSlot(S.lp, frame, index) THEN Raise("Fatal")
    ELSE IF S.cl[S.lp[frame][index + 1].n] = NULL THEN Raise("NameError")
    ELSE Ok(S.cl[S.lp[frame][index + 1].n])

frame_set_cell(S, frame, index, value) ==
    IF ~IsCellSlot(S.lp, frame, index) THEN S
    ELSE [S EXCEPT !.cl[S.lp[frame][index + 1].n] = value]

frame_del_cell(S, frame, index) == frame_set_cell(S, frame, index, NULL)

\* whether a set or clear through the primitive is carried out at all
SlotOk(S, var) ==
    IF var.kind = "fast" THEN IsFastSlot(S.lp, var.frame, var.index)
    ELSE IsCellSlot(S.lp, var.frame, var.index)

\* ---------------------------------------------------------------- accessors
\* _frame_var(get_var, set_var, del_var): three partials bound to one
\* (frame, index); the record keeps what the partials are bound to.
_create_fast_var(frame, index) == [kind |-> "fast", frame |-> frame, index |-> index]

\* _create_cell_var binding the fast primitives
_create_cell_varAsFast(frame, index) == [kind |-> "fast", frame |-> frame, index |-> index]

_create_cell_var(frame, index) == [kind |-> "cell", frame |-> frame, index |-> index]

get_var(var, S) ==
    IF var.kind = "fast" THEN frame_get_fast(S, var.frame, var.index)
    ELSE frame_get_cell(S, var.frame, var.index)

set_var(var, S, value) ==
    IF var.kind = "fast" THEN frame_set_fast(S, var.frame, var.index, value)
    ELSE frame_set_cell(S, var.frame, var.index, value)

del_var(var, S) ==
    IF var.kind = "fast" THEN frame_del_fast(S, var.frame, var.index)
    ELSE frame_del_cell(S, var.frame, var.index)

\* ---------------------------------------------------------------- LiveLocals.__init__
\* A dict keeps insertion order: keys is the order, acc the mapping.
EmptyDict == [keys |-> <<>>, acc |-> <<>>]

\* vars.setdefault(name, var): the first accessor of a name is kept
DictSetKeepFirst(d, k, v) ==
    [keys |-> IF k \in DOMAIN d.acc THEN d.keys ELSE Append(d.keys, k),
     acc |-> d.acc @@ (k :> v)]

DictSet(d, k, v) ==
    [keys |-> IF k \in DOMAIN d.acc THEN d.keys ELSE Append(d.keys, k),
     acc |-> (k :> v) @@ d.acc]

\* enumerate() read as if it left i one past the last index
RECURSIVE EnumerateVarsOnePast(_, _, _, _, _, _)
EnumerateVarsOnePast(st, frame, names, k, start, kind) ==
    IF k > Len(names) THEN [vars |-> st.vars, i |-> st.i + 1]
    ELSE LET i == start + (k - 1)
             var == IF kind = "fast" THEN _create_fast_var(frame, i)
                    ELSE _create_cell_var(frame, i)
         IN  EnumerateVarsOnePast([vars |-> DictSet(st.vars, names[k], var), i |-> i],
                                  frame, names, k + 1, start, kind)

\* for i, name in enumerate(names, start): vars[name] = create(frame, i)
\* st = [vars, i] is the loop's state; i keeps its last value after the loop.
RECURSIVE EnumerateVars(_, _, _, _, _, _)
EnumerateVars(st, frame, names, k, start, kind) ==
    IF k > Len(names) THEN st
    ELSE LET i == start + (k - 1)
             var == IF kind = "fast" THEN _create_fast_var(frame, i)
                    ELSE _create_cell_var(frame, i)
         IN  EnumerateVars([vars |-> DictSet(st.vars, names[k], var), i |-> i],
                           frame, names, k + 1, start, kind)

\* the other index convention: cell and free indices counted from 0
LiveLocals__init__CellsFromZero(frame) ==
    LET code == f_code(frame)
        s0 == [vars |-> EmptyDict, i |-> -1]
        s1 == EnumerateVars(s0, frame, code.co_varnames, 1, 0, "fast")
        s2 == EnumerateVars(s1, frame, code.co_cellvars, 1, 0, "cell")
        s3 == EnumerateVars(s2, frame, code.co_freevars, 1, Len(code.co_cellvars), "cell")
    IN  [_frame_id |-> frame, _vars |-> s3.vars]

\* the three loops of __init__ over the segments of code
InitVars(code, frame) ==
    LET s0 == [vars |-> EmptyDict, i |-> -1]
        s1 == EnumerateVars(s0, frame, code.co_varnames, 1, 0, "fast")
        s2 == EnumerateVars(s1, frame, code.co_cellvars, 1, s1.i + 1, "cell")
        s3 == EnumerateVars(s2, frame, code.co_freevars, 1, s2.i + 1, "cell")
    IN  s3.vars

LiveLocals__init__(frame) ==
    [_frame_id |-> frame, _vars |-> InitVars(f_code(frame), frame)]

\* ---------------------------------------------------------------- the heap
\* A free place of the heap of LiveLocals instances.  "interned" is a ghost
\* field: whether the instance was built by a request that used the cache.
FreeView == [st |-> "free", _frame_id |-> 0, _vars |-> EmptyDict, interned |-> FALSE]

\* seen is a ghost field: the keys the generator has yielded
NoIter == [view |-> 0, pos |-> 0, seen |-> {}]

AliveViews(vw) == {v \in ViewIds : vw[v].st = "alive"}

\* no call of livelocals in progress
NoCall == [pc |-> "idle", frame |-> 0, found |-> 0]

\* the views a caller variable, the items() generator or the local  found  of
\* a call in progress refers to
RootViews(ho, i, th) ==
    ({ho[h] : h \in Holders} \cup {i.view} \cup {th[h].found : h \in Holders}) \ {0}

\* the views a frame's fast slots refer to
ViewsInFrame(lp, frame) ==
    {lp[frame][k].n : k \in {j \in DOMAIN lp[frame] : lp[frame][j].t = "view"}}

\* the frames the partials of a view's accessors are bound to
FramesOfView(self) == {self._vars.acc[k].frame : k \in DOMAIN self._vars.acc}

\* H = [fs, lp, views, cache] is the part of the state reclamation changes.
ViewHasReferrer(H, roots, v) ==
    \/ v \in roots
    \/ \E f \in Frames : H.fs[f] # "freed" /\ v \in ViewsInFrame(H.lp, f)

\* accessors that keep an identity token of the frame instead of the frame
FrameHasReferrerWeak(H, f) ==
    \/ H.fs[f] \in {"running", "suspended"}
    \/ H.cache[f] # 0

\* the cache's key is a strong reference to the frame
FrameHasReferrer(H, f) ==
    \/ H.fs[f] \in {"running", "suspended"}
    \/ H.cache[f] # 0
    \/ \E v \in AliveViews(H.views) : f \in FramesOfView(H.views[v])

\* a dead weak value takes its cache entry with it
FreeViews(H, D) ==
    [H EXCEPT !.views = [v \in ViewIds |-> IF v \in D THEN FreeView ELSE H.views[v]],
              !.cache = [f \in Frames |-> IF H.cache[f] \in D THEN 0 ELSE H.cache[f]]]

FreeFrames(H, D) ==
    [H EXCEPT !.fs = [f \in Frames |-> IF f \in D THEN "freed" ELSE H.fs[f]],
              !.lp = [f \in Frames |->
                         IF f \in D
                         THEN [k \in DOMAIN H.lp[f] |->
                                  IF H.lp[f][k].t = "cell" THEN H.lp[f][k] ELSE NULL]
                         ELSE H.lp[f]]]

\* reference counting: whatever nothing refers to is freed at once
RECURSIVE RefSweep(_, _)
RefSweep(H, roots) ==
    LET dv == {v \in AliveViews(H.views) : ~ViewHasReferrer(H, roots, v)}
        df == {f \in Frames : H.fs[f] # "freed" /\ ~FrameHasReferrer(H, f)}
    IN  IF dv = {} /\ df = {} THEN H
        ELSE RefSweep(FreeFrames(FreeViews(H, dv), df), roots)

\* what can be reached from the roots by strong references; the cache's keys
\* count as roots when withCache
RECURSIVE Reach(_, _)
Reach(H, R) ==
    LET rv == R.views \cup UNION {ViewsInFrame(H.lp, f) : f \in R.frames}
        rf == R.frames \cup UNION {FramesOfView(H.views[v]) : v \in R.views}
    IN  IF rv = R.views /\ rf = R.frames THEN R
        ELSE Reach(H, [views |-> rv, frames |-> rf])

Reachable(H, roots, withCache) ==
    Reach(H, [views |-> roots,
              frames |-> {f \in Frames : H.fs[f] \in {"running", "suspended"}}
                         \cup (IF withCache THEN {f \in Frames : H.cache[f] # 0} ELSE {})])

\* the cyclic collector: frees what is unreachable, cycles included
gc_collect(H, roots) ==
    LET r == Reachable(H, roots, TRUE)
        dv == AliveViews(H.views) \ r.views
        df == {f \in Frames : H.fs[f] # "freed"} \ r.frames
    IN  RefSweep(FreeFrames(FreeViews(H, dv), df), roots)

Heap == [fs |-> fstate, lp |-> localsplus, views |-> views, cache |-> cache]

Storage == [lp |-> localsplus, cl |-> cells]

\* ---------------------------------------------------------------- results
Result(op, frame, view, key, arg, kind, val) ==
    [op |-> op, frame |-> frame, view |-> view, key |-> key, arg |-> arg,
     kind |-> kind, val |-> val, seq |-> <<>>]

Idle == Result("idle", 0, 0, "", NULL, "ok", NULL)

\* Every operation ends here: the reference counts are settled and the new
\* state is the result.  A freed frame's fast variables are gone.
Settle(S, vw, ca, fs, ho, i, e, r, th) ==
    LET H == RefSweep([fs |-> fs, lp |-> S.lp, views |-> vw, cache |-> ca],
                      RootViews(ho, i, th))
    IN  /\ thread' = th
        /\ probe' = probe
        /\ fstate' = H.fs
        /\ localsplus' = H.lp
        /\ cells' = S.cl
        /\ views' = H.views
        /\ cache' = H.cache
        /\ holder' = ho
        /\ it' = i
        /\ env' = [x \in Variables |->
                      IF H.fs[x[1]] = "freed" /\ HostSlot(x[1], x[2]).kind = "fast"
                      THEN NULL ELSE e[x]]
        /\ ret' = r

\* an operation that is no step of a call of livelocals in progress
Commit(S, vw, ca, fs, ho, i, e, r) == Settle(S, vw, ca, fs, ho, i, e, r, thread)

\* ---------------------------------------------------------------- livelocals
\* LiveLocals(frame): a new instance in a free place of the heap
NewView(vw) == CHOOSE v \in ViewIds : vw[v].st # "alive" /\
                   \A w \in ViewIds : vw[w].st # "alive" => v <= w

LiveLocals(vw, v, frame, interned) ==
    [vw EXCEPT ![v] = [st |-> "alive", interned |-> interned,
                       _frame_id |-> LiveLocals__init__(frame)._frame_id,
                       _vars |-> LiveLocals__init__(frame)._vars]]

\* whether the call has to build an instance
livelocals_builds(ca, frame, useCache) == ~useCache \/ ca[frame] = 0

\* livelocals that uses the default cache whatever _cache it is given
livelocalsIgnoresPolicy(vw, ca, frame, useCache) ==
    IF ca[frame] # 0
    THEN [found |-> ca[frame], views |-> vw, cache |-> ca]
    ELSE [found |-> NewView(vw), views |-> LiveLocals(vw, NewView(vw), frame, useCache),
          cache |-> [ca EXCEPT ![frame] = NewView(vw)]]

\* livelocals that forgets  _cache[frame] = found
livelocalsNoStore(vw, ca, frame, useCache) ==
    IF useCache /\ ca[frame] # 0
    THEN [found |-> ca[frame], views |-> vw, cache |-> ca]
    ELSE [found |-> NewView(vw), views |-> LiveLocals(vw, NewView(vw), frame, useCache),
          cache |-> ca]

\* livelocals(frame, _cache): [found, views, cache] after the call
livelocals(vw, ca, frame, useCache) ==
    IF ~useCache
    THEN [found |-> NewView(vw), views |-> LiveLocals(vw, NewView(vw), frame, FALSE),
          cache |-> ca]
    ELSE IF ca[frame] # 0
    THEN [found |-> ca[frame], views |-> vw, cache |-> ca]
    ELSE [found |-> NewView(vw), views |-> LiveLocals(vw, NewView(vw), frame, TRUE),
          cache |-> [ca EXCEPT ![frame] = NewView(vw)]]

\* ll = livelocals(frame) / livelocals(frame, _cache=None) in a caller
CallLivelocals(h, frame, useCache) ==
    /\ fstate[frame] \in {"running", "suspended"}
    /\ livelocals_builds(cache, frame, useCache) => AliveViews(views) # ViewIds
    /\ LET r == livelocals(views, cache, frame, useCache)
       IN  Commit(Storage, r.views, r.cache, fstate, [holder EXCEPT ![h] = r.found],
                  it, env,
                  Result("livelocals", frame, r.found, "",
                         IF useCache THEN None ELSE NULL, "ok", ViewRef(r.found)))

\* livelocals(frame) step by step, as a thread of control runs it.  The
\* interpreter may switch threads between any two of the steps.
\* found = _cache.get(frame, None)
Lookup(h, frame) ==
    /\ thread[h].pc = "idle"
    /\ fstate[frame] \in {"running", "suspended"}
    /\ Settle(Storage, views, cache, fstate, holder, it, env, Idle,
              [thread EXCEPT ![h] = [pc |-> "looked", frame |-> frame,
                                     found |-> cache[frame]]])

\* if found is None: found = LiveLocals(frame)
Construct(h) ==
    /\ thread[h].pc = "looked"
    /\ thread[h].found = 0
    /\ AliveViews(views) # ViewIds
    /\ Settle(Storage, LiveLocals(views, NewView(views), thread[h].frame, TRUE),
              cache, fstate, holder, it, env, Idle,
              [thread EXCEPT ![h].pc = "built", ![h].found = NewView(views)])

\* _cache[frame] = found
Insert(h) ==
    /\ thread[h].pc = "built"
    /\ Settle(Storage, views, [cache EXCEPT ![thread[h].frame] = thread[h].found],
              fstate, holder, it, env, Idle,
              [thread EXCEPT ![h].pc = "stored"])

\* return found, and the caller's  ll = ...
ReturnFound(h) ==
    /\ \/ thread[h].pc = "stored"
       \/ thread[h].pc = "looked" /\ thread[h].found # 0
    /\ Settle(Storage, views, cache, fstate,
              [holder EXCEPT ![h] = thread[h].found], it, env,
              Result("livelocals", thread[h].frame, thread[h].found, "", None, "ok",
                     ViewRef(thread[h].found)),
              [thread EXCEPT ![h] = NoCall])

\* del ll in a caller
Release(h) ==
    /\ holder[h] # 0
    /\ Commit(Storage, views, cache, fstate, [holder EXCEPT ![h] = 0], it, env, Idle)

\* if frame is None: frame = currentframe().f_back
\* (0 stands for None; caller is the frame livelocals was called from)
TargetFrame(frame, caller) == IF frame = 0 THEN caller ELSE frame

\* gen.gi_frame: the generator's frame, None once the generator has finished
gi_frame(fs, gen) == IF fs[gen.n] \in {"running", "suspended"} THEN gen.n ELSE 0

\* return livelocals(gen.gi_frame), called in frame 3; an object that is not
\* a generator has no gi_frame
generatorlocals(vw, ca, fs, gen) ==
    IF gen.t # "gen"
    THEN [res |-> Raise("AttributeError"), frame |-> 0, found |-> 0, views |-> vw, cache |-> ca]
    ELSE LET frame == TargetFrame(gi_frame(fs, gen), 3)
             r == livelocals(vw, ca, frame, TRUE)
         IN  [res |-> Ok(ViewRef(r.found)), frame |-> frame, found |-> r.found,
              views |-> r.views, cache |-> r.cache]

\* what a caller hands to generatorlocals(): the generator of frame 2, or an int
GenArgs == {GenRef(2)} \cup IntVals

\* ll = generatorlocals(gen) in a caller.  The activation of generatorlocals
\* is frame 3, with gen in its only variable; it has returned when the call
\* is over, and lives on only if something refers to it.  An exception
\* leaves the caller's variable as it was.
Generatorlocals(h, gen) ==
    /\ fstate[3] = "freed"
    /\ (gen.t = "gen" /\ cache[TargetFrame(gi_frame(fstate, gen), 3)] = 0)
          => AliveViews(views) # ViewIds
    /\ LET r == generatorlocals(views, cache, fstate, gen)
       IN  Commit([lp |-> [localsplus EXCEPT ![3] = <<gen>>], cl |-> cells],
                  r.views, r.cache, [fstate EXCEPT ![3] = "finished"],
                  IF r.res.kind = "ok" THEN [holder EXCEPT ![h] = r.found] ELSE holder,
                  it, [env EXCEPT ![<<3, "gen">>] = gen],
                  Result("generatorlocals", r.frame, r.found, "", gen,
                         r.res.kind, r.res.val))

\* ---------------------------------------------------------------- the mapping facade
\* An operation that may change storage gives [res, S]: its outcome and the
\* storage after it.
Outcome(res, S) == [res |-> res, S |-> S]

\* __getitem__ written like get(): a missing key gives None
__getitem__AsGet(self, key, S) ==
    IF key \notin DOMAIN self._vars.acc THEN Ok(None)
    ELSE get_var(self._vars.acc[key], S)

__getitem__(self, key, S) ==
    IF key \notin DOMAIN self._vars.acc THEN Raise("KeyError")
    ELSE get_var(self._vars.acc[key], S)

__setitem__(self, key, value, S) ==
    IF key \notin DOMAIN self._vars.acc THEN Outcome(Raise("KeyError"), S)
    ELSE IF ~SlotOk(S, self._vars.acc[key]) THEN Outcome(Raise("Fatal"), S)
    ELSE Outcome(Ok(None), set_var(self._vars.acc[key], S, value))

\* __delitem__ calling get_var instead of del_var
__delitem__NoClear(self, key, S) ==
    IF key \notin DOMAIN self._vars.acc THEN Outcome(Raise("KeyError"), S)
    ELSE Outcome(get_var(self._vars.acc[key], S), S)

__delitem__(self, key, S) ==
    IF key \notin DOMAIN self._vars.acc THEN Outcome(Raise("KeyError"), S)
    ELSE IF ~SlotOk(S, self._vars.acc[key]) THEN Outcome(Raise("Fatal"), S)
    ELSE Outcome(Ok(None), del_var(self._vars.acc[key], S))

\* setdefault that lets the KeyError out
setdefaultRaises(self, key, default, S) ==
    IF key \notin DOMAIN self._vars.acc THEN Outcome(Raise("KeyError"), S)
    ELSE LET r == get_var(self._vars.acc[key], S)
         IN  IF r.kind = "NameError"
             THEN Outcome(Ok(default), set_var(self._vars.acc[key], S, default))
             ELSE Outcome(r, S)

\* setdefault that returns the default without assigning it
setdefaultNoWrite(self, key, default, S) ==
    IF key \notin DOMAIN self._vars.acc THEN Outcome(Ok(default), S)
    ELSE LET r == get_var(self._vars.acc[key], S)
         IN  IF r.kind = "NameError" THEN Outcome(Ok(default), S) ELSE Outcome(r, S)

\* try: return get_var()  except KeyError: return default
\* except NameError: set_var(default); return default
setdefault(self, key, default, S) ==
    IF key \notin DOMAIN self._vars.acc THEN Outcome(Ok(default), S)
    ELSE LET r == get_var(self._vars.acc[key], S)
         IN  IF r.kind = "NameError"
             THEN Outcome(Ok(default), set_var(self._vars.acc[key], S, default))
             ELSE Outcome(r, S)

\* a value of type bool
Bool(b) == [t |-> "bool", n |-> IF b THEN 1 ELSE 0]

\* __contains__ written as  key in self.keys(): only assigned names are found
__contains__ViaKeys(self, key, S) ==
    Ok(Bool(key \in DOMAIN self._vars.acc /\ get_var(self._vars.acc[key], S).kind = "ok"))

\* return key in self._vars
__contains__(self, key, S) == Ok(Bool(key \in DOMAIN self._vars.acc))

\* get() written like setdefault(): an unassigned name is given the default
getAsSetdefault(self, key, default, S) ==
    IF key \notin DOMAIN self._vars.acc THEN Outcome(Ok(default), S)
    ELSE LET r == get_var(self._vars.acc[key], S)
         IN  IF r.kind = "NameError"
             THEN Outcome(Ok(default), set_var(self._vars.acc[key], S, default))
             ELSE Outcome(r, S)

\* get() that catches only the NameError
getNoCatchKeyError(self, key, default, S) ==
    IF key \notin DOMAIN self._vars.acc THEN Outcome(Raise("KeyError"), S)
    ELSE LET r == get_var(self._vars.acc[key], S)
         IN  IF r.kind = "NameError" THEN Outcome(Ok(default), S) ELSE Outcome(r, S)

\* try: return self._vars[key].get_var()
\* except (KeyError, NameError): return default
get(self, key, default, S) ==
    IF key \notin DOMAIN self._vars.acc THEN Outcome(Ok(default), S)
    ELSE LET r == get_var(self._vars.acc[key], S)
         IN  IF r.kind = "NameError" THEN Outcome(Ok(default), S) ELSE Outcome(r, S)

\* update written as  self[key] = val  for every key: an unknown key raises
RECURSIVE updateViaSetitem(_, _, _, _)
updateViaSetitem(self, mapping, k, S) ==
    IF k > Len(mapping) THEN Outcome(Ok(None), S)
    ELSE IF mapping[k][1] \notin DOMAIN self._vars.acc THEN Outcome(Raise("KeyError"), S)
    ELSE IF ~SlotOk(S, self._vars.acc[mapping[k][1]]) THEN Outcome(Raise("Fatal"), S)
    ELSE updateViaSetitem(self, mapping, k + 1,
                          set_var(self._vars.acc[mapping[k][1]], S, mapping[k][2]))

\* for key, val in mapping.items(): if key in vars: vars[key].set_var(val)
\* mapping is the sequence of (key, val) pairs that mapping.items() gives,
\* k the pair the loop has come to
RECURSIVE update(_, _, _, _)
update(self, mapping, k, S) ==
    IF k > Len(mapping) THEN Outcome(Ok(None), S)
    ELSE IF mapping[k][1] \notin DOMAIN self._vars.acc THEN update(self, mapping, k + 1, S)
    ELSE IF ~SlotOk(S, self._vars.acc[mapping[k][1]]) THEN Outcome(Raise("Fatal"), S)
    ELSE update(self, mapping, k + 1,
                set_var(self._vars.acc[mapping[k][1]], S, mapping[k][2]))

\* items() without the  except NameError: pass
itemsNoCatch(self, k, S) ==
    IF k > Len(self._vars.keys)
    THEN [kind |-> "stop", key |-> "", val |-> NULL, pos |-> k - 1]
    ELSE LET r == get_var(self._vars.acc[self._vars.keys[k]], S)
         IN  IF r.kind = "ok"
             THEN [kind |-> "yield", key |-> self._vars.keys[k], val |-> r.val, pos |-> k]
             ELSE [kind |-> r.kind, key |-> self._vars.keys[k], val |-> NULL, pos |-> k]

\* One step of the items() generator, resumed after pos keys of _vars: the
\* next key whose get_var succeeds is yielded, a NameError is passed over.
RECURSIVE items(_, _, _)
items(self, k, S) ==
    IF k > Len(self._vars.keys)
    THEN [kind |-> "stop", key |-> "", val |-> NULL, pos |-> k - 1]
    ELSE LET r == get_var(self._vars.acc[self._vars.keys[k]], S)
         IN  IF r.kind = "ok"
             THEN [kind |-> "yield", key |-> self._vars.keys[k], val |-> r.val, pos |-> k]
             ELSE IF r.kind = "NameError" THEN items(self, k + 1, S)
             ELSE [kind |-> r.kind, key |-> self._vars.keys[k], val |-> NULL, pos |-> k]

\* keys() and values() map r[0] and r[1] over items()
Project(proj, r) ==
    IF proj = "keys" THEN <<r.key, NULL>>
    ELSE IF proj = "values" THEN <<"", r.val>>
    ELSE <<r.key, r.val>>

\* list(ll.items()): the generator run to its end in one go
RECURSIVE items_list(_, _, _, _, _)
items_list(self, pos, S, proj, acc) ==
    LET r == items(self, pos + 1, S)
    IN  IF r.kind = "yield" THEN items_list(self, r.pos, S, proj, Append(acc, Project(proj, r)))
        ELSE [kind |-> r.kind, seq |-> acc]

\* the ghost's view of an assignment to (or clearing of) a declared name
Assign(e, frame, name, value) ==
    IF name \in DeclaredNames(frame) THEN [e EXCEPT ![Binding(frame, name)] = value]
    ELSE e

Getitem(h, key) ==
    /\ holder[h] # 0
    /\ LET self == views[holder[h]]
           r == __getitem__(self, key, Storage)
       IN  Commit(Storage, views, cache, fstate, holder, it, env,
                  Result("getitem", self._frame_id, holder[h], key, NULL, r.kind, r.val))

Setitem(h, key, value) ==
    /\ holder[h] # 0
    /\ LET self == views[holder[h]]
           o == __setitem__(self, key, value, Storage)
       IN  Commit(o.S, views, cache, fstate, holder, it,
                  Assign(env, self._frame_id, key, value),
                  Result("setitem", self._frame_id, holder[h], key, value,
                         o.res.kind, o.res.val))

Delitem(h, key) ==
    /\ holder[h] # 0
    /\ LET self == views[holder[h]]
           o == __delitem__(self, key, Storage)
       IN  Commit(o.S, views, cache, fstate, holder, it,
                  Assign(env, self._frame_id, key, NULL),
                  Result("delitem", self._frame_id, holder[h], key, NULL,
                         o.res.kind, o.res.val))

Setdefault(h, key, default) ==
    /\ holder[h] # 0
    /\ LET self == views[holder[h]]
           o == setdefault(self, key, default, Storage)
       IN  Commit(o.S, views, cache, fstate, holder, it,
                  IF key \in DeclaredNames(self._frame_id)
                        /\ env[Binding(self._frame_id, key)] = NULL
                  THEN Assign(env, self._frame_id, key, default) ELSE env,
                  Result("setdefault", self._frame_id, holder[h], key, default,
                         o.res.kind, o.res.val))

\* g = ll.items(): a generator that has not run yet; it refers to the view
ItemsCall(h) ==
    /\ holder[h] # 0
    /\ Commit(Storage, views, cache, fstate, holder, [view |-> holder[h], pos |-> 0, seen |-> {}], env, Idle)

\* next(g); a generator that ended or raised lets go of the view
ItemsNext ==
    /\ it.view # 0
    /\ LET self == views[it.view]
           r == items(self, it.pos + 1, Storage)
       IN  Commit(Storage, views, cache, fstate, holder,
                  IF r.kind = "yield"
                  THEN [it EXCEPT !.pos = r.pos, !.seen = it.seen \cup {r.key}]
                  ELSE NoIter, env,
                  Result("next", self._frame_id, it.view, r.key, NULL, r.kind, r.val))

\* list(ll.items()), list(ll.keys()), list(ll.values())
ItemsList(h, proj) ==
    /\ holder[h] # 0
    /\ LET self == views[holder[h]]
           r == items_list(self, 0, Storage, proj, <<>>)
       IN  Commit(Storage, views, cache, fstate, holder, it, env,
                  [Result(proj, self._frame_id, holder[h], "", NULL,
                          IF r.kind = "stop" THEN "ok" ELSE r.kind, NULL)
                      EXCEPT !.seq = r.seq])

\* the defaults a caller hands to get(): None when it gives none
Defaults == {None} \cup IntVals

\* ll.get(key, default)
Get(h, key, default) ==
    /\ holder[h] # 0
    /\ LET self == views[holder[h]]
           o == get(self, key, default, Storage)
       IN  Commit(o.S, views, cache, fstate, holder, it, env,
                  Result("get", self._frame_id, holder[h], key, default,
                         o.res.kind, o.res.val))

\* key in ll
Contains(h, key) ==
    /\ holder[h] # 0
    /\ LET self == views[holder[h]]
           r == __contains__(self, key, Storage)
       IN  Commit(Storage, views, cache, fstate, holder, it, env,
                  Result("contains", self._frame_id, holder[h], key, NULL, r.kind, r.val))

\* the order in which a dict that a caller builds lists its keys
KeyOrder == <<"a", "c", "z">>

\* mapping.items() of the dict d: its (key, val) pairs from the k-th key on
RECURSIVE DictItems(_, _)
DictItems(d, k) ==
    IF k > Len(KeyOrder) THEN <<>>
    ELSE (IF KeyOrder[k] \in DOMAIN d THEN <<<<KeyOrder[k], d[KeyOrder[k]]>>>> ELSE <<>>)
            \o DictItems(d, k + 1)

\* the mappings a caller hands to update(): dicts of up to MaxMap keys
Mappings ==
    {DictItems(d, 1) :
        d \in UNION {[K -> IntVals] : K \in {L \in SUBSET Names : Cardinality(L) <= MaxMap}}}

\* the ghost's view of the assignments of update()
RECURSIVE AssignAll(_, _, _, _)
AssignAll(e, frame, mapping, k) ==
    IF k > Len(mapping) THEN e
    ELSE AssignAll(Assign(e, frame, mapping[k][1], mapping[k][2]), frame, mapping, k + 1)

\* ll.update(mapping)
Update(h, mapping) ==
    /\ holder[h] # 0
    /\ LET self == views[holder[h]]
           o == update(self, mapping, 1, Storage)
       IN  Commit(o.S, views, cache, fstate, holder, it,
                  AssignAll(env, self._frame_id, mapping, 1),
                  [Result("update", self._frame_id, holder[h], "", NULL,
                          o.res.kind, o.res.val)
                      EXCEPT !.seq = mapping])

\* ---------------------------------------------------------------- the frames' own execution
\* a name of the frame's own code: LOAD_FAST / LOAD_DEREF and their kin
HostLoad(S, frame, name) ==
    LET slot == HostSlot(frame, name)
    IN  IF slot.kind = "fast" THEN frame_get_fast(S, frame, slot.index)
        ELSE frame_get_cell(S, frame, slot.index)

HostStore(S, frame, name, value) ==
    LET slot == HostSlot(frame, name)
    IN  IF slot.kind = "fast" THEN frame_set_fast(S, frame, slot.index, value)
        ELSE frame_set_cell(S, frame, slot.index, value)

\* what the frame's code may assign: a plain value, or (to a fast variable) a
\* view some caller holds, as in  ll = livelocals()
Storable(frame, name) ==
    IntVals \cup (IF HostSlot(frame, name).kind = "fast"
                  THEN {ViewRef(holder[h]) : h \in {g \in Holders : holder[g] # 0}}
                  ELSE {})

\* name = value in the frame's own code
ExecStore(frame, name, value) ==
    /\ fstate[frame] = "running"
    /\ name \in DeclaredNames(frame)
    /\ value \in Storable(frame, name)
    /\ Commit(HostStore(Storage, frame, name, value), views, cache, fstate, holder, it,
              Assign(env, frame, name, value),
              Result("store", frame, 0, name, value, "ok", NULL))

\* del name in the frame's own code; an unbound name raises and changes nothing
ExecDel(frame, name) ==
    /\ fstate[frame] = "running"
    /\ name \in DeclaredNames(frame)
    /\ LET r == HostLoad(Storage, frame, name)
       IN  Commit(HostStore(Storage, frame, name, NULL), views, cache, fstate, holder, it,
                  Assign(env, frame, name, NULL),
                  Result("del", frame, 0, name, NULL, r.kind, NULL))

\* the frame's own code (or a closure) reads name
ExecLoad(frame, name) ==
    /\ fstate[frame] = "running"
    /\ name \in DeclaredNames(frame)
    /\ LET r == HostLoad(Storage, frame, name)
       IN  Commit(Storage, views, cache, fstate, holder, it, env,
                  Result("load", frame, 0, name, NULL, r.kind, r.val))

\* the function returns / the generator finishes
Return(frame) ==
    /\ fstate[frame] = "running"
    /\ Commit(Storage, views, cache, [fstate EXCEPT ![frame] = "finished"],
              holder, it, env, Idle)

\* frame 2 is a generator: it yields and is resumed
Yield(frame) ==
    /\ frame = 2
    /\ fstate[frame] = "running"
    /\ Commit(Storage, views, cache, [fstate EXCEPT ![frame] = "suspended"],
              holder, it, env, Idle)

Resume(frame) ==
    /\ fstate[frame] = "suspended"
    /\ Commit(Storage, views, cache, [fstate EXCEPT ![frame] = "running"],
              holder, it, env, Idle)

\* the collector runs
GcCollect ==
    /\ gc_collect(Heap, RootViews(holder, it, thread)) # Heap
    /\ LET H == gc_collect(Heap, RootViews(holder, it, thread))
       IN  Commit([lp |-> H.lp, cl |-> cells], H.views, H.cache, H.fs,
                  holder, it, env, Idle)

\* ---------------------------------------------------------------- specification
InitFrames ==
    /\ fstate = [f \in Frames |-> IF f = 1 THEN "running"
                                  ELSE IF f = 2 THEN "suspended" ELSE "freed"]
    /\ localsplus = [f \in Frames |->
                        IF f = 1 THEN <<NULL, NULL, CellRef(1)>>
                        ELSE IF f = 2 THEN <<CellRef(1)>> ELSE <<NULL>>]
    /\ cells \in [{1} -> IntVals]
    /\ views = [v \in ViewIds |-> FreeView]
    /\ holder = [h \in Holders |-> 0]
    /\ cache = [f \in Frames |-> 0]
    /\ it = NoIter
    /\ env = [x \in Variables |-> IF x = <<1, "c">> THEN cells[1] ELSE NULL]
    /\ ret = Idle
    /\ thread = [h \in Holders |-> NoCall]

\* no code object is looked at on its own
NoProbe == [code |-> [co_varnames |-> <<>>, co_cellvars |-> <<>>, co_freevars |-> <<>>],
            vars |-> EmptyDict, done |-> FALSE]

Init == InitFrames /\ probe = NoProbe

\* the mapping facade and the frames' own code, on plain values
Next ==
    \/ \E h \in Holders, f \in Frames : CallLivelocals(h, f, TRUE)
    \/ \E h \in Holders, key \in Names : Getitem(h, key)
    \/ \E h \in Holders, key \in Names, value \in IntVals : Setitem(h, key, value)
    \/ \E h \in Holders, key \in Names : Delitem(h, key)
    \/ \E h \in Holders, key \in Names, default \in IntVals : Setdefault(h, key, default)
    \/ \E f \in Frames, n \in Names, value \in IntVals : ExecStore(f, n, value)
    \/ \E f \in Frames, n \in Names : ExecDel(f, n)
    \/ \E f \in Frames, n \in Names : ExecLoad(f, n)
    \/ \E f \in Frames : Return(f)
    \/ \E f \in Frames : Yield(f)
    \/ \E f \in Frames : Resume(f)

Spec == Init /\ [][Next]_vars

\* the items() generator, interleaved with writes and clears
NextItems ==
    \/ \E h \in Holders, f \in Frames : CallLivelocals(h, f, TRUE)
    \/ \E h \in Holders : ItemsCall(h)
    \/ ItemsNext
    \/ \E h \in Holders, proj \in {"items", "keys", "values"} : ItemsList(h, proj)
    \/ \E h \in Holders, key \in Names, value \in IntVals : Setitem(h, key, value)
    \/ \E h \in Holders, key \in Names : Delitem(h, key)
    \/ \E f \in Frames, n \in Names, value \in IntVals : ExecStore(f, n, value)
    \/ \E f \in Frames, n \in Names : ExecDel(f, n)

SpecItems == Init /\ [][NextItems]_vars

\* the lifetime of views and frames: views are requested, stored in the
\* frame's own variable, released and collected
NextLife ==
    \/ \E h \in Holders, f \in Frames, useCache \in BOOLEAN : CallLivelocals(h, f, useCache)
    \/ \E h \in Holders : Release(h)
    \/ \E f \in Frames, value \in {ViewRef(v) : v \in ViewIds} : ExecStore(f, "a", value)
    \/ \E f \in Frames : ExecDel(f, "a")
    \/ \E f \in Frames : Return(f)
    \/ \E f \in Frames : Resume(f)
    \/ GcCollect

SpecLife == Init /\ [][NextLife]_vars

\* views of a generator's frame, asked for while the generator runs, is
\* suspended, and after it has finished
NextGen ==
    \/ \E h \in Holders, gen \in GenArgs : Generatorlocals(h, gen)
    \/ \E h \in Holders, f \in Frames : CallLivelocals(h, f, TRUE)
    \/ \E h \in Holders : Release(h)
    \/ \E h \in Holders, key \in Names, value \in IntVals : Setitem(h, key, value)
    \/ \E f \in Frames : Resume(f)
    \/ \E f \in Frames : Yield(f)
    \/ \E f \in Frames : Return(f)

SpecGen == Init /\ [][NextGen]_vars

\* views built with and without the cache, used side by side, also after the
\* frame's function has returned
NextFresh ==
    \/ \E h \in Holders, f \in Frames, useCache \in BOOLEAN : CallLivelocals(h, f, useCache)
    \/ \E h \in Holders, key \in Names : Getitem(h, key)
    \/ \E h \in Holders, key \in Names, value \in IntVals : Setitem(h, key, value)
    \/ \E f \in Frames : Return(f)

SpecFresh == Init /\ [][NextFresh]_vars

\* two threads of control ask for views; nothing orders their steps
NextThreads ==
    \/ \E h \in Holders, f \in Frames : Lookup(h, f)
    \/ \E h \in Holders : Construct(h)
    \/ \E h \in Holders : Insert(h)
    \/ \E h \in Holders : ReturnFound(h)
    \/ \E h \in Holders : Release(h)

SpecThreads == Init /\ [][NextThreads]_vars

\* LiveLocals.__init__ on its own, for every layout of a code object: each
\* segment is a sequence of up to MaxSeg names, no name twice in a segment,
\* and a name may be in several segments
SegNames == {"a", "b", "c"}

Segments ==
    {q \in UNION {[1..n -> SegNames] : n \in 0..MaxSeg} :
        \A i, j \in DOMAIN q : q[i] = q[j] => i = j}

Codes == [co_varnames : Segments, co_cellvars : Segments, co_freevars : Segments]

InitLayout ==
    /\ InitFrames
    /\ probe \in {[code |-> co, vars |-> EmptyDict, done |-> FALSE] : co \in Codes}

\* LiveLocals(frame) for a frame, not one of Frames, that runs probe.code
BuildProbe ==
    /\ ~probe.done
    /\ probe' = [probe EXCEPT !.vars = InitVars(probe.code, 0), !.done = TRUE]
    /\ UNCHANGED <<fstate, localsplus, cells, views, holder, cache, it, env, ret, thread>>

NextLayout == BuildProbe

SpecLayout == InitLayout /\ [][NextLayout]_vars

\* the reading methods of a view and the single-name writes, with the
\* frames' own code
NextMap ==
    \/ \E h \in Holders, f \in Frames : CallLivelocals(h, f, TRUE)
    \/ \E h \in Holders, key \in Names, default \in Defaults : Get(h, key, default)
    \/ \E h \in Holders, key \in Names : Contains(h, key)
    \/ \E h \in Holders, key \in Names : Getitem(h, key)
    \/ \E h \in Holders, proj \in {"items", "keys", "values"} : ItemsList(h, proj)
    \/ \E h \in Holders, key \in Names, value \in IntVals : Setitem(h, key, value)
    \/ \E h \in Holders, key \in Names, default \in IntVals : Setdefault(h, key, default)
    \/ \E h \in Holders, key \in Names : Delitem(h, key)
    \/ \E f \in Frames, n \in Names, value \in IntVals : ExecStore(f, n, value)

SpecMap == Init /\ [][NextMap]_vars

\* update() through the view one caller holds, among clears and the frames'
\* own code
NextUpdate ==
    \/ \E f \in Frames : CallLivelocals("ll1", f, TRUE)
    \/ \E h \in Holders, mapping \in Mappings : Update(h, mapping)
    \/ \E h \in Holders, key \in Names : Delitem(h, key)
    \/ \E f \in Frames, n \in Names, value \in IntVals : ExecStore(f, n, value)
    \/ \E f \in Frames, n \in Names : ExecDel(f, n)

SpecUpdate == Init /\ [][NextUpdate]_vars

\* ================================================================ claims
\* the views of a frame that some caller holds
HeldViewsOf(frame) ==
    {holder[h] : h \in {g \in Holders : holder[g] # 0 /\ views[holder[g]]._frame_id = frame}}

\* C1: after ll[n] = v on a declared name, ll[n] gives v through every held
\* view of that frame, an interned view is the one another livelocals(frame)
\* request returns, and every later ll[n] gives the value last assigned.
C1_WriteThenRead ==
    /\ (ret.op = "setitem" /\ ret.key \in DeclaredNames(ret.frame)) =>
          /\ ret.kind = "ok"
          /\ \A w \in HeldViewsOf(ret.frame) :
                __getitem__(views[w], ret.key, Storage) = Ok(ret.arg)
          /\ views[ret.view].interned =>
                livelocals(views, cache, ret.frame, TRUE).found = ret.view
    /\ (ret.op = "getitem" /\ ret.key \in DeclaredNames(ret.frame)
            /\ env[Binding(ret.frame, ret.key)] # NULL) =>
          /\ ret.kind = "ok"
          /\ ret.val = env[Binding(ret.frame, ret.key)]

\* a write through a view that two callers obtained independently
C1_Witness ==
    /\ ret.op = "setitem" /\ ret.kind = "ok"
    /\ holder["ll1"] # 0 /\ holder["ll1"] = holder["ll2"]
    /\ ret.view = holder["ll2"]

\* C2: del ll[n] on a declared name succeeds, and ll[n] raises NameError from
\* then on, for as long as nothing assigns the name again.
C2_ClearThenRead ==
    /\ (ret.op = "delitem" /\ ret.key \in DeclaredNames(ret.frame)) =>
          /\ ret.kind = "ok"
          /\ \A w \in HeldViewsOf(ret.frame) :
                __getitem__(views[w], ret.key, Storage).kind = "NameError"
    /\ (ret.op = "getitem" /\ ret.key \in DeclaredNames(ret.frame)
            /\ env[Binding(ret.frame, ret.key)] = NULL) =>
          ret.kind = "NameError"

\* the free variable of frame 2 is read through the view of frame 2 after it
\* was cleared, while the fast variable of frame 1 holds a value
C2_Witness ==
    /\ ret.op = "getitem" /\ ret.frame = 2 /\ ret.key = "c" /\ ret.kind = "NameError"
    /\ env[<<1, "a">>] # NULL

\* C3: ll[name], ll[name] = v and del ll[name] on a name the frame does not
\* declare raise KeyError and change no slot.
C3_Undeclared ==
    [][(ret'.op \in {"getitem", "setitem", "delitem"}
            /\ ret'.key \notin DeclaredNames(ret'.frame)) =>
          (ret'.kind = "KeyError" /\ localsplus' = localsplus /\ cells' = cells)]_vars

\* "a" is declared by frame 1 but not by frame 2
C3_Witness ==
    ret.op = "setitem" /\ ret.frame = 2 /\ ret.key = "a" /\ ret.kind = "KeyError"

\* C4: under the default cache at most one view of a frame exists at a time:
\* a request for a frame whose view is alive returns that instance, and the
\* view a request returns is a view of the frame asked for.
C4_Interned ==
    /\ \A v, w \in AliveViews(views) :
          (views[v].interned /\ views[w].interned
              /\ views[v]._frame_id = views[w]._frame_id) => v = w
    /\ \A f \in Frames :
          cache[f] # 0 => (views[cache[f]].st = "alive" /\ views[cache[f]]._frame_id = f)
    /\ (ret.op = "livelocals" /\ ret.arg = None) =>
          /\ views[ret.view].st = "alive"
          /\ views[ret.view]._frame_id = ret.frame
          /\ \A w \in HeldViewsOf(ret.frame) : views[w].interned => w = ret.view

\* both callers asked for frame 2 and hold one instance, while the view of
\* frame 1 lives in another place
C4_Witness ==
    /\ ret.op = "livelocals" /\ ret.arg = None /\ ret.frame = 2
    /\ holder["ll1"] = holder["ll2"] /\ holder["ll1"] = ret.view
    /\ \E v \in AliveViews(views) : views[v]._frame_id = 1 /\ views[v].interned

\* what is reachable now, with and without the cache's keys as roots
ReachableNow(withCache) == Reachable(Heap, RootViews(holder, it, thread), withCache)

\* C5 as stated: a finished frame that only views refer to (no cache key, no
\* stack) can be reclaimed: nothing strong leads to it.
C5_Original ==
    \A f \in Frames :
        (fstate[f] = "finished" /\ cache[f] = 0) => f \notin ReachableNow(TRUE).frames

\* C5 amended: the accessors of a view are bound to the frame itself, so the
\* frame of a live view is never reclaimed, and the frame of a view a caller
\* holds is reachable through that view alone.
C5_ViewKeepsFrame ==
    /\ \A v \in AliveViews(views) : fstate[views[v]._frame_id] # "freed"
    /\ \A h \in Holders :
          holder[h] # 0 =>
              views[holder[h]]._frame_id
                  \in Reach(Heap, [views |-> {holder[h]}, frames |-> {}]).frames

\* frame 1 has returned, is no key of the cache, and a caller holds its view
C5_Witness ==
    /\ fstate[1] = "finished" /\ cache[1] = 0
    /\ HeldViewsOf(1) # {}

\* C6: a cache entry lasts only as long as something holds its view, and
\* nothing is alive only because of the cache.
C6_CacheWeak ==
    /\ \A f \in Frames :
          cache[f] # 0 => ViewHasReferrer(Heap, RootViews(holder, it, thread), cache[f])
    /\ ReachableNow(TRUE).views \subseteq ReachableNow(FALSE).views
    /\ ReachableNow(TRUE).frames \subseteq ReachableNow(FALSE).frames

\* what a read of a variable holding x gives
Expected(x) == IF x = NULL THEN Raise("NameError") ELSE Ok(x)

Got(r) == [kind |-> r.kind, val |-> r.val]

\* C7: a read through a view and a read by the frame's own code (or by the
\* closure that shares the cell) both give what was last assigned to the
\* variable by any actor, and NameError after it was last cleared; the
\* frame's own storage holds what was last written through a view.
C7_ReadsLatest ==
    /\ (ret.op = "getitem" /\ ret.key \in DeclaredNames(ret.frame)) =>
          Got(ret) = Expected(env[Binding(ret.frame, ret.key)])
    /\ ret.op = "load" => Got(ret) = Expected(env[Binding(ret.frame, ret.key)])
    /\ \A f \in Frames :
          fstate[f] # "freed" =>
              \A n \in DeclaredNames(f) :
                  HostLoad(Storage, f, n) = Expected(env[Binding(f, n)])

\* the resumed generator reads the shared cell while views of both frames
\* are held
C7_Witness ==
    /\ ret.op = "load" /\ ret.frame = 2 /\ ret.key = "c" /\ ret.kind = "ok"
    /\ HeldViewsOf(1) # {} /\ HeldViewsOf(2) # {}

\* the declared names of a frame that hold a value now
DefinedNames(frame) == {n \in DeclaredNames(frame) : env[Binding(frame, n)] # NULL}

\* C8: a step of items() yields a name that holds a value at that moment,
\* with that value, or ends; it never raises.  A whole pass (items, keys,
\* values) gives exactly the names that hold a value when it is made.
C8_ItemsSkipUndefined ==
    /\ ret.op = "next" =>
          /\ ret.kind \in {"yield", "stop"}
          /\ ret.kind = "yield" =>
                /\ ret.key \in DefinedNames(ret.frame)
                /\ ret.val = env[Binding(ret.frame, ret.key)]
    /\ ret.op \in {"items", "keys", "values"} =>
          /\ ret.kind = "ok"
          /\ Len(ret.seq) = Cardinality(DefinedNames(ret.frame))
          /\ ret.op # "values" =>
                {ret.seq[k][1] : k \in DOMAIN ret.seq} = DefinedNames(ret.frame)
          /\ ret.op = "items" =>
                \A k \in DOMAIN ret.seq :
                    ret.seq[k][2] = env[Binding(ret.frame, ret.seq[k][1])]
          /\ ret.op = "values" =>
                {ret.seq[k][2] : k \in DOMAIN ret.seq}
                    = {env[Binding(ret.frame, n)] : n \in DefinedNames(ret.frame)}

\* a generator over the view of frame 1 passed over "c" and yielded "a"; a
\* later items() on the same view gives both names
C8_Witness ==
    /\ it.view # 0 /\ it.pos = 2 /\ "c" \notin it.seen
    /\ ret.op = "items" /\ ret.view = it.view /\ Len(ret.seq) = 2

\* C9: setdefault on a declared name that holds nothing assigns the default
\* and returns it; on a name that holds v it returns v and changes no slot.
C9_Setdefault ==
    [][(ret'.op = "setdefault" /\ ret'.key \in DeclaredNames(ret'.frame)) =>
          IF env[Binding(ret'.frame, ret'.key)] = NULL
          THEN /\ Got(ret') = Ok(ret'.arg)
               /\ HostLoad([lp |-> localsplus', cl |-> cells'], ret'.frame, ret'.key)
                     = Ok(ret'.arg)
          ELSE /\ Got(ret') = Ok(env[Binding(ret'.frame, ret'.key)])
               /\ localsplus' = localsplus /\ cells' = cells]_vars

\* setdefault returned the value the name holds, not the default given
C9_Witness ==
    /\ ret.op = "setdefault" /\ ret.key \in DeclaredNames(ret.frame)
    /\ ret.kind = "ok" /\ ret.val # ret.arg

\* C10 as stated: setdefault on a name the view does not know raises KeyError.
C10_Original ==
    (ret.op = "setdefault" /\ ret.key \notin DeclaredNames(ret.frame)) =>
        ret.kind = "KeyError"

\* C10 amended: setdefault on a name the view does not know returns the
\* default without raising, and changes no slot.
C10_SetdefaultUndeclared ==
    [][(ret'.op = "setdefault" /\ ret'.key \notin DeclaredNames(ret'.frame)) =>
          /\ Got(ret') = Ok(ret'.arg)
          /\ localsplus' = localsplus /\ cells' = cells]_vars

C10_Witness ==
    ret.op = "setdefault" /\ ret.key = "z" /\ ret.kind = "ok" /\ ret.val = ret.arg

\* the names a mapping handed to update() assigns in a frame: its declared keys
NamedIn(frame, mapping) ==
    {Binding(frame, mapping[k][1]) :
        k \in {j \in DOMAIN mapping : mapping[j][1] \in DeclaredNames(frame)}}

\* C11: update(mapping) always returns normally; afterwards every declared
\* key of the mapping reads as the mapped value, whatever the slot held
\* before; the view's keys and accessors are what they were, and every
\* variable of every frame that the mapping does not name reads as before.
C11_Update ==
    [][ret'.op = "update" =>
          /\ ret'.kind = "ok"
          /\ \A k \in DOMAIN ret'.seq :
                ret'.seq[k][1] \in DeclaredNames(ret'.frame) =>
                   __getitem__(views'[ret'.view], ret'.seq[k][1], Storage')
                      = Ok(ret'.seq[k][2])
          /\ views'[ret'.view] = views[ret'.view]
          /\ \A f \in Frames, n \in Names :
                (n \in DeclaredNames(f) /\ Binding(f, n) \notin NamedIn(ret'.frame, ret'.seq))
                   => HostLoad(Storage', f, n) = HostLoad(Storage, f, n)
       ]_vars

\* update() was handed a declared name and, before it, an undeclared one, and
\* the declared name now reads as the value handed over
C11_Witness ==
    /\ ret.op = "update"
    /\ Len(ret.seq) = 2
    /\ ret.seq[1][1] \notin DeclaredNames(ret.frame)
    /\ ret.seq[2][1] \in DeclaredNames(ret.frame)
    /\ ret.kind = "ok"
    /\ __getitem__(views[ret.view], ret.seq[2][1], Storage) = Ok(ret.seq[2][2])

\* C12: get(name, default) always returns normally and changes no slot and
\* no cell: it returns the name's value when the name is declared and
\* assigned, and the default when it is declared but unassigned and when it
\* is not a name of the view.
C12_Get ==
    [][ret'.op = "get" =>
          /\ localsplus' = localsplus
          /\ cells' = cells
          /\ Got(ret') =
                IF ret'.key \in DeclaredNames(ret'.frame)
                      /\ env[Binding(ret'.frame, ret'.key)] # NULL
                THEN Ok(env[Binding(ret'.frame, ret'.key)])
                ELSE Ok(ret'.arg)
       ]_vars

\* get() of a name that is not in the view returned the default, while the
\* frame of the view has a declared name that is unassigned
C12_Witness ==
    /\ ret.op = "get"
    /\ ret.key \notin DeclaredNames(ret.frame)
    /\ ret.arg \in IntVals
    /\ Got(ret) = Ok(ret.arg)
    /\ \E n \in DeclaredNames(ret.frame) : env[Binding(ret.frame, n)] = NULL

\* C13: the keys of every live view are the declared names of its frame, in
\* every state that writes, clears, setdefault and the frame's own steps
\* lead to (an update step leaves a view's keys as they were: C11); and
\* name in view  returns normally, with True exactly for the declared names,
\* assigned or not.
C13_Contains ==
    /\ \A v \in AliveViews(views) :
          /\ DOMAIN views[v]._vars.acc = DeclaredNames(views[v]._frame_id)
          /\ SeqRange(views[v]._vars.keys) = DeclaredNames(views[v]._frame_id)
    /\ ret.op = "contains" =>
          Got(ret) = Ok(Bool(ret.key \in DeclaredNames(ret.frame)))

\* name in view  was True for a declared name that is unassigned
C13_Witness ==
    /\ ret.op = "contains"
    /\ ret.key \in DeclaredNames(ret.frame)
    /\ env[Binding(ret.frame, ret.key)] = NULL
    /\ Got(ret) = Ok(Bool(TRUE))

\* C14: generatorlocals(gen) of a generator that still has a frame returns
\* the interned view of that frame; of anything else -- an object without
\* gi_frame, a generator that has finished -- it raises, and it never
\* returns a view of another frame.
C14_GeneratorLocals ==
    ret.op = "generatorlocals" =>
       IF ret.arg.t = "gen" /\ gi_frame(fstate, ret.arg) # 0
       THEN /\ ret.kind = "ok"
            /\ ret.frame = ret.arg.n
            /\ views[ret.view]._frame_id = ret.arg.n
            /\ cache[ret.arg.n] = ret.view
       ELSE ret.kind # "ok"

\* C15: when several threads ask for the view of a frame through the cache,
\* however their lookups, constructions and insertions interleave, the
\* frame never has more than one live view built through the cache, and
\* callers that hold views of the same frame hold the same instance.
C15_Concurrent ==
    /\ \A f \in Frames :
          Cardinality({v \in AliveViews(views) :
                          views[v].interned /\ views[v]._frame_id = f}) <= 1
    /\ \A g, h \in Holders :
          (holder[g] # 0 /\ holder[h] # 0
              /\ views[holder[g]]._frame_id = views[holder[h]]._frame_id)
             => holder[g] = holder[h]

\* the accessor the k-th name of a segment is given: fast names count from
\* 0, cell names go on from the number of fast names, free names from the
\* number of fast and cell names
SegSlot(code, seg, k) ==
    IF seg = 1 THEN [kind |-> "fast", frame |-> 0, index |-> k - 1]
    ELSE IF seg = 2
    THEN [kind |-> "cell", frame |-> 0, index |-> Len(code.co_varnames) + k - 1]
    ELSE [kind |-> "cell", frame |-> 0,
          index |-> Len(code.co_varnames) + Len(code.co_cellvars) + k - 1]

\* the segments of a code object, in the order  __init__ goes through them
SegsOf(code) == <<code.co_varnames, code.co_cellvars, code.co_freevars>>

\* the last segment that declares name (0: none)
LastSeg(code, name) ==
    IF IndexOf(code.co_freevars, name, 1) > 0 THEN 3
    ELSE IF IndexOf(code.co_cellvars, name, 1) > 0 THEN 2
    ELSE IF IndexOf(code.co_varnames, name, 1) > 0 THEN 1 ELSE 0

\* C16: whatever the sizes of the three segments, empty ones included, the
\* k-th fast name is given fast index k, the k-th cell name cell index
\* (fast count + k) and the k-th free name cell index (fast count + cell
\* count + k), counting from 0 (seen in the view for every name that no
\* later segment declares again); and no two names of the view are given the
\* same (kind, index).
C16_Indices ==
    probe.done =>
       /\ \A seg \in 1..3 : \A k \in DOMAIN SegsOf(probe.code)[seg] :
             LastSeg(probe.code, SegsOf(probe.code)[seg][k]) = seg
                => probe.vars.acc[SegsOf(probe.code)[seg][k]] = SegSlot(probe.code, seg, k)
       /\ \A n, m \in DOMAIN probe.vars.acc :
             (probe.vars.acc[n].kind = probe.vars.acc[m].kind
                 /\ probe.vars.acc[n].index = probe.vars.acc[m].index) => n = m

\* a view was built for a code object with fast names, no cell name and free
\* names, and the first free name has the index after the last fast name
C16_Witness ==
    /\ probe.done
    /\ Len(probe.code.co_varnames) = MaxSeg
    /\ Len(probe.code.co_cellvars) = 0
    /\ Len(probe.code.co_freevars) > 0
    /\ LastSeg(probe.code, probe.code.co_varnames[MaxSeg]) = 1
    /\ probe.vars.acc[probe.code.co_freevars[1]].index
          = probe.vars.acc[probe.code.co_varnames[MaxSeg]].index + 1

\* C17: a name that several segments declare is one key of the view, and its
\* accessor is the one of the last of these segments (fast, then cell, then
\* free); every name, declared once or more, has the index of its position
\* in that segment, as if no name were declared twice.
C17_Duplicates ==
    probe.done =>
       /\ DOMAIN probe.vars.acc =
             SeqRange(probe.code.co_varnames) \cup SeqRange(probe.code.co_cellvars)
                \cup SeqRange(probe.code.co_freevars)
       /\ Len(probe.vars.keys) = Cardinality(DOMAIN probe.vars.acc)
       /\ SeqRange(probe.vars.keys) = DOMAIN probe.vars.acc
       /\ \A n \in DOMAIN probe.vars.acc :
             probe.vars.acc[n] =
                SegSlot(probe.code, LastSeg(probe.code, n),
                        IndexOf(SegsOf(probe.code)[LastSeg(probe.code, n)], n, 1))

\* a view was built for a code object whose first fast name is also a cell
\* name: the name has the cell accessor, and the next fast name has index 1
C17_Witness ==
    /\ probe.done
    /\ Len(probe.code.co_varnames) = 2
    /\ probe.code.co_varnames[1] \in SeqRange(probe.code.co_cellvars)
    /\ probe.code.co_varnames[2] \notin SeqRange(probe.code.co_cellvars)
    /\ probe.code.co_freevars = <<>>
    /\ probe.vars.acc[probe.code.co_varnames[1]].kind = "cell"
    /\ probe.vars.acc[probe.code.co_varnames[2]] = SegSlot(probe.code, 1, 2)

\* the live views of a frame, after a step
ViewsOfAfter(frame) ==
    {v \in ViewIds : views'[v].st = "alive" /\ views'[v]._frame_id = frame}

\* C18: a call of livelocals with _cache=None builds an instance that was
\* not alive before the call, for the frame asked for; the cache does not
\* refer to it, and no entry of the cache changes except that of a view the
\* caller's rebinding has let go; the new view reads every name as every
\* other live view of the frame does, and a write through any view of a
\* frame, built with or without the cache, is read through all of them.
C18_AlwaysFresh ==
    [][/\ (ret'.op = "livelocals" /\ ret'.arg = NULL) =>
             /\ views[ret'.view].st # "alive"
             /\ views'[ret'.view].st = "alive"
             /\ views'[ret'.view]._frame_id = ret'.frame
             /\ \A f \in Frames :
                   /\ cache'[f] # ret'.view
                   /\ cache'[f] # cache[f] =>
                         (cache'[f] = 0 /\ views'[cache[f]].st # "alive")
             /\ \A w \in ViewsOfAfter(ret'.frame), n \in Names :
                   __getitem__(views'[w], n, Storage')
                      = __getitem__(views'[ret'.view], n, Storage')
       /\ (ret'.op = "setitem" /\ ret'.key \in DeclaredNames(ret'.frame)) =>
             \A w \in ViewsOfAfter(ret'.frame) :
                __getitem__(views'[w], ret'.key, Storage') = Ok(ret'.arg)
      ]_vars

\* one caller holds the view of a frame that the cache refers to, the other
\* has just been given another view of that frame by a call with _cache=None
C18_Witness ==
    /\ ret.op = "livelocals"
    /\ ret.arg = NULL
    /\ cache[ret.frame] # 0
    /\ cache[ret.frame] # ret.view
    /\ cache[ret.frame] \in HeldViewsOf(ret.frame)
    /\ ret.view \in HeldViewsOf(ret.frame)

\* C19: while a caller holds a view, its frame is not freed; once the
\* frame's function has returned, every declared name still reads through
\* the view as the value last assigned to it (NameError if it has none), and
\* a write through the view succeeds and is read back.
C19_AfterReturn ==
    \A h \in Holders :
       holder[h] # 0 =>
          /\ fstate[views[holder[h]]._frame_id] # "freed"
          /\ fstate[views[holder[h]]._frame_id] = "finished" =>
                /\ \A n \in DeclaredNames(views[holder[h]]._frame_id) :
                      __getitem__(views[holder[h]], n, Storage)
                         = Expected(env[Binding(views[holder[h]]._frame_id, n)])
                /\ (ret.op = "setitem" /\ ret.view = holder[h]
                       /\ ret.key \in DeclaredNames(ret.frame)) =>
                      /\ ret.kind = "ok"
                      /\ __getitem__(views[holder[h]], ret.key, Storage) = Ok(ret.arg)

\* the function of frame 1 has returned, a view of the frame built without
\* the cache is held, and a write of its own variable through it succeeded
C19_Witness ==
    /\ fstate[1] = "finished"
    /\ ret.op = "setitem"
    /\ ret.frame = 1
    /\ ret.key = "a"
    /\ ret.kind = "ok"
    /\ ret.view \in HeldViewsOf(1)
    /\ ~views[ret.view].interned
    /\ __getitem__(views[ret.view], "a", Storage) = Ok(ret.arg)

\* C20: a write, a clear or a setdefault of one name through a view changes
\* no other variable of any frame, and no place of storage but that name's
\* own fast slot or cell; a read, get, contains, keys, values or items
\* changes no fast slot and no cell at all.
C20_OwnSlotOnly ==
    [][/\ ret'.op \in {"setitem", "delitem", "setdefault"} =>
             /\ \A f \in Frames : \A n \in DeclaredNames(f) :
                   Binding(f, n) # Binding(ret'.frame, ret'.key)
                      => HostLoad(Storage', f, n) = HostLoad(Storage, f, n)
             /\ \A f \in Frames : \A k \in DOMAIN localsplus[f] :
                   localsplus'[f][k] # localsplus[f][k] =>
                      /\ f = ret'.frame
                      /\ ret'.key \in DeclaredNames(f)
                      /\ HostSlot(f, ret'.key) = [kind |-> "fast", index |-> k - 1]
             /\ cells' # cells =>
                   /\ ret'.key \in DeclaredNames(ret'.frame)
                   /\ HostSlot(ret'.frame, ret'.key).kind = "cell"
       /\ ret'.op \in {"getitem", "get", "contains", "keys", "values", "items"} =>
             /\ localsplus' = localsplus
             /\ cells' = cells
      ]_vars

\* a clear through a view has just emptied one variable of frame 1 while the
\* other variable of the frame still holds its value
C20_Witness ==
    /\ ret.op = "delitem"
    /\ ret.kind = "ok"
    /\ ret.frame = 1
    /\ ret.key \in DeclaredNames(1)
    /\ HostLoad(Storage, 1, ret.key).kind = "NameError"
    /\ \E n \in DeclaredNames(1) : n # ret.key /\ HostLoad(Storage, 1, n).kind = "ok"

====
